---- MODULE Spec2Model ----
(***************************************************************************)
(* A model of the telephony call-routing webhook server.  The repository   *)
(* holds several revisions of the same server; `variant` says which one is *)
(* deployed.  One behaviour follows one inbound call: the provider         *)
(* delivers /voice, then the callbacks the returned call-control document  *)
(* names (/post_dial or /missed, /afterhours, the media stream), possibly  *)
(* more than once and concurrently.  A handler runs from one await to the  *)
(* next in one step; every external call (text message, voice call, email, *)
(* language model, speech synthesis) succeeds or fails nondeterministically.*)
(***************************************************************************)
EXTENDS Naturals, Integers, Sequences, FiniteSets, TLC

VARIABLES
    variant,      \* the revision of the server that is deployed
    env,          \* process.env as the handlers read it
    clock,        \* the local time of the call and the configured hours window
    reqs,         \* the webhook deliveries of this call, in delivery order
    callbacks,    \* the callback routes the provider has been handed
    stage,        \* the dialogue stage the last call-control document left
    conn,         \* the media-stream connection of the realtime revision
    audioCache,   \* the prompts whose synthesized audio is cached
    audioTextMap, \* the prompts the pre-synthesizing revision can regenerate
    ttl           \* the main revision's audio cache with its timestamps

vars == <<variant, env, clock, reqs, callbacks, stage, conn, audioCache,
          audioTextMap, ttl>>

-----------------------------------------------------------------------------
(* Bounds of the model *)

MaxDeliveries == 3
MaxInFlight == 2

-----------------------------------------------------------------------------
(* Revisions of the server *)

V_REALTIME == "realtime"     \* src/index.cjs 1-491
V_MISSED12 == "missed12"     \* src/index.cjs 493-634
V_MAIN     == "main"         \* src/index.cjs 636-1246
V_CALLBACK == "callback"     \* src/index.js 1-124
V_LUXON    == "luxon"        \* src/index.js 223-305
V_SELFTEST == "selftest"     \* src/unnamed/part_000
V_FUSE     == "fuse"         \* src/unnamed/part_001
V_PRESYNTH == "presynth"     \* src/unnamed/part_002

Variants == {V_REALTIME, V_MISSED12, V_MAIN, V_CALLBACK, V_LUXON,
             V_SELFTEST, V_FUSE, V_PRESYNTH}

\* The revisions whose /voice consults the configured hours window
HoursVariants == {V_REALTIME, V_MAIN, V_FUSE, V_PRESYNTH}
\* The revisions with the speech-gathering /afterhours handler
GatherVariants == {V_MAIN, V_FUSE, V_PRESYNTH}
\* The revisions that check required settings inside the handlers
LazyEnvVariants == {V_MISSED12, V_CALLBACK}

-----------------------------------------------------------------------------
(* Values *)

Undef == "undefined"                 \* a missing form field or object key
OWNER_NUMBER == "+61400000000"
Callers == {"+61411111111", "anonymous", Undef, OWNER_NUMBER}

DialStatuses == {"completed", "no-answer", "busy"}
Durations == {0, 3, 12, 20, 60}
AnsweredBys == {"", "human", "machine", "fax", "unknown"}

ANSWERED_THRESHOLD_SECONDS == 12
REALTIME_ANSWERED_SECONDS == 5

NoResp == [type |-> "none", status |-> 0, verbs |-> <<>>]

Verb(v, a) == [verb |-> v, arg |-> a]

TwiML(vs) == [type |-> "text/xml", status |-> 200, verbs |-> vs]

PlainText(code) == [type |-> "text/plain", status |-> code, verbs |-> <<>>]

\* String.prototype.startsWith("+") on a value that is a string
StartsWithPlus(c) == c \in {"+61411111111", OWNER_NUMBER}

-----------------------------------------------------------------------------
(* Settings *)

\* The revisions that call requireEnv at module load
StartupChecked(v) == v \in {V_REALTIME, V_MAIN, V_SELFTEST, V_FUSE, V_PRESYNTH}

\* The settings a revision reads.  owner stands for the telephony account and
\* the two numbers, email for the three email settings, openai and eleven for
\* the language-model and synthesis settings, tz for a time zone Intl accepts.
Envs(v) ==
    { e \in [ owner : BOOLEAN, email : BOOLEAN, openai : BOOLEAN,
              eleven : BOOLEAN, tz : BOOLEAN ] :
        /\ v = V_LUXON => e.owner
        /\ (v \notin {V_REALTIME, V_MAIN, V_FUSE, V_PRESYNTH}) => ~e.email
        /\ (v \notin GatherVariants \cup {V_REALTIME}) => (~e.openai /\ ~e.eleven)
        /\ (v \notin HoursVariants) => e.tz }

\* Module load ran to app.listen: no requireEnv at load threw
Listening(v, e) ==
    /\ StartupChecked(v) => e.owner
    /\ v = V_REALTIME => (e.openai /\ e.eleven)

-----------------------------------------------------------------------------
(* One webhook delivery and the handler run that serves it *)

\* JSON.parse results and the handlers' default record.  t is the JS type;
\* a key the object lacks reads as Undef.
Rec(n, l, i, e) == [t |-> "obj", name |-> n, location |-> l, issue |-> i,
                    emergency |-> e]

JsNull == [t |-> "null", name |-> Undef, location |-> Undef, issue |-> Undef,
           emergency |-> Undef]

\* A parsed value none of whose four keys is defined: a JSON string, an
\* array, or the object {}.  The handlers only ever read these four keys.
JsKeyless == [t |-> "keyless", name |-> Undef, location |-> Undef,
              issue |-> Undef, emergency |-> Undef]

\* suburbFuse.search returned no result
NoMatch == [item |-> "", score |-> 100]

NoLead == [sent |-> FALSE, name |-> "", location |-> "", issue |-> "",
           urgent |-> ""]

NewReq(route) ==
    [ route |-> route, pc |-> "start",
      speech |-> "", final |-> FALSE,
      inHours |-> "na",
      caller |-> Undef, status |-> "", dur |-> 0, ansBy |-> "",
      outcome |-> "na",
      extracted |-> Rec("", "", "", ""),
      firstObj |-> JsNull,
      heard |-> "", best |-> NoMatch, fixed |-> "",
      urgent |-> FALSE,
      tried |-> {}, failed |-> {},
      lead |-> NoLead, said |-> {},
      resp |-> NoResp, crashed |-> FALSE ]

\* The handler suspends on an external call
Await(r, ch) == [r EXCEPT !.pc = ch, !.tried = @ \cup {ch}]

\* res.type("text/xml").send(...) or res.status(..).send(..): the handler ends
Respond(r, doc) == [r EXCEPT !.pc = "done", !.resp = doc]

\* An exception no try block of the handler catches: the async handler's
\* promise rejects and the request is left without a response
Crash(r) == [r EXCEPT !.pc = "done", !.crashed = TRUE]

Failed(r, ch) == [r EXCEPT !.failed = @ \cup {ch}]

Hangup == Verb("hangup", "")

-----------------------------------------------------------------------------
(* Speech output *)

elevenEnabled == env.eleven

\* sayOrPlay of the revisions that synthesize on fetch: <Play> of the /audio
\* address when synthesis is configured, the built-in voice otherwise
sayOrPlay(text) == IF elevenEnabled THEN Verb("play", text) ELSE Verb("say", text)

\* A sayOrPlay that would play the clip whether or not it was synthesized
sayOrPlayCachedAlways(text, id) == Verb("play", text)

\* sayOrPlay of the pre-synthesizing revision: <Play> only if the clip was
\* synthesized (ensureAudioCached returned an id)
sayOrPlayCached(text, id) == IF id THEN Verb("play", text) ELSE Verb("say", text)

-----------------------------------------------------------------------------
(* Business hours *)

Hours == 0..23                               \* the local hour of the day
Windows == {<<7, 17>>, <<22, 6>>, <<9, 9>>}  \* BUSINESS_START, BUSINESS_END
Days == 1..7                                 \* the local weekday, 1 = Monday

Clock(h, d, w) == [hour |-> h, day |-> d, start |-> w[1], end |-> w[2]]

\* Every time of the week under every window
AllClocks == { Clock(h, d, w) : h \in Hours, d \in Days, w \in Windows }

\* A call on Tuesday morning and one on Tuesday night, window 7 to 17
CallClocks == { Clock(10, 2, <<7, 17>>), Clock(21, 2, <<7, 17>>) }

\* The window with its closing hour included
isWithinBusinessHoursInclusive(hour, start, end) == hour >= start /\ hour <= end

isWithinBusinessHours(hour, start, end) == hour >= start /\ hour < end

isBusinessHours(day, hour) ==
    IF day >= 1 /\ day <= 5 THEN hour >= 7 /\ hour < 17
    ELSE IF day = 6 THEN hour >= 7 /\ hour < 12
    ELSE FALSE

-----------------------------------------------------------------------------
(* Call outcome *)

\* consideredAnswered of the main, fuse and pre-synthesizing revisions
consideredAnswered(dialCallStatus, answeredBy, dialCallDuration) ==
    IF dialCallStatus = "completed" /\ dialCallDuration > 0 THEN TRUE
    ELSE IF answeredBy # "" THEN TRUE
    ELSE FALSE

\* consideredAnswered of the realtime revision
consideredAnsweredRealtime(dialCallStatus, dialCallDuration) ==
    dialCallStatus = "completed" /\ dialCallDuration >= REALTIME_ANSWERED_SECONDS

\* /missed of the threshold revision and /post_dial of the self-test revision
answeredByDuration(dialCallStatus, dialCallDuration) ==
    dialCallStatus = "completed" /\ dialCallDuration >= ANSWERED_THRESHOLD_SECONDS

\* /missed of the callback revision
answeredByStatus(dialCallStatus) == dialCallStatus = "completed"

Answered(r) ==
    CASE variant \in {V_MAIN, V_FUSE, V_PRESYNTH} ->
            consideredAnswered(r.status, r.ansBy, r.dur)
      [] variant = V_REALTIME -> consideredAnsweredRealtime(r.status, r.dur)
      [] variant \in {V_MISSED12, V_SELFTEST} ->
            answeredByDuration(r.status, r.dur)
      [] OTHER -> answeredByStatus(r.status)

-----------------------------------------------------------------------------
(* POST /voice *)

\* The action attribute of <Dial>: the route the provider calls when the
\* dial attempt ends
DialAction == IF variant \in {V_MISSED12, V_CALLBACK} THEN "/missed" ELSE "/post_dial"

DialDoc == TwiML(<<Verb("dial", DialAction)>>)

\* The after-hours document of the gathering revisions, given how each of the
\* two prompts came out (played or said)
GatherDoc(intro, prompt, fallback) ==
    TwiML(<<intro, Verb("gather", "/afterhours"), prompt, fallback, Hangup>>)

StreamDoc ==
    TwiML(<<Verb("say", "greeting"), Verb("stream", "/twilio-stream"),
            Verb("say", "stream_fallback"), Hangup>>)

\* /voice up to its first await.  inHours is the result of the hours check.
VoiceStart(r, inHours) ==
    CASE variant = V_REALTIME ->
            \* a throw in this synchronous handler reaches the framework's
            \* error handler, which answers 500
            IF ~env.tz THEN Respond(r, PlainText(500))
            ELSE IF inHours THEN Respond(r, DialDoc)
            ELSE Respond(r, StreamDoc)
      [] variant \in {V_MISSED12, V_CALLBACK} ->
            IF ~env.owner THEN Respond(r, PlainText(500))
            ELSE Respond(r, DialDoc)
      [] variant = V_SELFTEST -> Respond(r, DialDoc)
      [] variant = V_MAIN ->
            IF ~env.tz
            THEN Respond(r, TwiML(<<sayOrPlay("error"), Hangup>>))
            ELSE IF inHours THEN Respond(r, DialDoc)
            ELSE Respond(r, GatherDoc(sayOrPlay("intro"), sayOrPlay("prompt"),
                                      sayOrPlay("nospeech")))
      [] variant = V_FUSE ->
            IF ~env.tz THEN Crash(r)
            ELSE IF inHours THEN Respond(r, DialDoc)
            ELSE Respond(r, GatherDoc(sayOrPlay("intro"), sayOrPlay("prompt"),
                                      sayOrPlay("nospeech")))
      [] variant = V_PRESYNTH ->
            IF ~env.tz THEN Crash(r)
            ELSE IF inHours THEN Respond(r, DialDoc)
            ELSE IF elevenEnabled THEN Await(r, "tts1")
            ELSE Respond(r, GatherDoc(Verb("say", "intro"), Verb("say", "prompt"),
                                      Verb("say", "nospeech")))
      [] variant = V_LUXON ->
            IF inHours THEN Respond(r, TwiML(<<Verb("say", "open")>>))
            ELSE Await(r, "ownerSms")

\* /voice of the pre-synthesizing revision after the greeting's synthesis
VoiceAfterTts1(r, ok) ==
    Await([r EXCEPT !.failed = IF ok THEN @ ELSE @ \cup {"tts1"}], "tts2")

\* ... and after the gather prompt's synthesis
VoiceAfterTts2(r, ok) ==
    Respond([r EXCEPT !.failed = IF ok THEN @ ELSE @ \cup {"tts2"}],
            GatherDoc(sayOrPlayCached("intro", "tts1" \notin r.failed),
                      sayOrPlayCached("prompt", ok),
                      Verb("say", "nospeech")))

\* /voice of the luxon revision after client.messages.create
VoiceAfterOwnerSms(r, ok) ==
    IF ok THEN Await(r, "ownerCall") ELSE Crash(Failed(r, "ownerSms"))

\* ... and after client.calls.create
VoiceAfterOwnerCall(r, ok) ==
    IF ok THEN Respond(r, TwiML(<<Verb("say", "closed")>>))
    ELSE Crash(Failed(r, "ownerCall"))

-----------------------------------------------------------------------------
(* POST /post_dial and POST /missed *)

\* req.body.From || "Unknown" in the revisions that default it
CallerOrUnknown(c) == IF c = Undef THEN "Unknown" ELSE c

PostDialCaller(r) == IF variant \in {V_MISSED12, V_CALLBACK, V_SELFTEST}
                     THEN CallerOrUnknown(r.caller) ELSE r.caller

\* A handler without the self-test guard
isSelfTestNever(r) == FALSE

isSelfTest(r) == variant = V_SELFTEST /\ PostDialCaller(r) = OWNER_NUMBER

emailConfigured == env.email

\* The catch block around the handler body
PostDialCatch(r) ==
    CASE variant \in {V_MAIN, V_FUSE, V_PRESYNTH} -> Respond(r, PlainText(200))
      [] variant = V_CALLBACK ->
            Respond(r, TwiML(<<Verb("say", "error"), Hangup>>))
      [] OTHER -> Respond(r, TwiML(<<Hangup>>))

\* The end of the missed path
PostDialFinish(r) ==
    IF variant \in {V_MISSED12, V_CALLBACK, V_SELFTEST}
    THEN Respond(r, TwiML(<<Verb("say", "missed"), Hangup>>))
    ELSE Respond(r, TwiML(<<Hangup>>))

\* From the email step on
PostDialEmail(r) ==
    IF variant \in {V_REALTIME, V_MAIN, V_FUSE, V_PRESYNTH} /\ emailConfigured
    THEN Await(r, "email")
    ELSE PostDialFinish(r)

\* From the caller auto-reply on
PostDialCallerSms(r) ==
    CASE variant = V_CALLBACK -> Await(r, "ownerCall")
      [] variant = V_SELFTEST ->
            IF ~isSelfTest(r) /\ StartsWithPlus(PostDialCaller(r))
            THEN Await(r, "callerSms") ELSE PostDialFinish(r)
      [] OTHER ->
            IF StartsWithPlus(PostDialCaller(r))
            THEN Await(r, "callerSms") ELSE PostDialEmail(r)

\* A handler that would text the owner whatever the classification
PostDialStartNotifyAlways(r) ==
    LET q == [r EXCEPT !.outcome = IF Answered(r) THEN "ANSWERED" ELSE "MISSED"]
    IN  IF variant \in LazyEnvVariants /\ ~env.owner
        THEN PostDialCatch([r EXCEPT !.outcome = "na"])
        ELSE Await(q, "ownerSms")

\* The handler up to its first await
PostDialStart(r) ==
    LET q == [r EXCEPT !.outcome = IF Answered(r) THEN "ANSWERED" ELSE "MISSED"]
    IN  IF variant \in LazyEnvVariants /\ ~env.owner
        THEN PostDialCatch([r EXCEPT !.outcome = "na"])
        ELSE IF Answered(r) THEN Respond(q, TwiML(<<Hangup>>))
        ELSE IF isSelfTest(r) THEN PostDialCallerSms(q)
        ELSE Await(q, "ownerSms")

PostDialAfterOwnerSms(r, ok) ==
    IF ok THEN PostDialCallerSms(r)
    ELSE IF variant = V_CALLBACK THEN PostDialCallerSms(Failed(r, "ownerSms"))
    ELSE PostDialCatch(Failed(r, "ownerSms"))

PostDialAfterCallerSms(r, ok) ==
    IF ok THEN PostDialEmail(r) ELSE PostDialCatch(Failed(r, "callerSms"))

PostDialAfterEmail(r, ok) ==
    IF ok THEN PostDialFinish(r)
    ELSE IF variant = V_REALTIME THEN PostDialCatch(Failed(r, "email"))
    ELSE PostDialFinish(Failed(r, "email"))

\* /missed of the callback revision after client.calls.create
PostDialAfterOwnerCall(r, ok) ==
    IF ok THEN PostDialFinish(r) ELSE PostDialFinish(Failed(r, "ownerCall"))

-----------------------------------------------------------------------------
(* The language model's answer and its parsing *)

\* A response text is a sequence of segments: prose without braces, one
\* well-formed JSON object, or a JSON value that is not an object.
Seg(k, v) == [k |-> k, v |-> v]

Prose == Seg("prose", JsNull)

R_FULL    == Rec("Ann", "Canley Vale", "burst pipe", "yes")
R_FUZZY   == Rec("", "Candyville", "leak", "not urgent")
R_PARTIAL == Rec("Bob", "", "blocked drain", "unsure")

LlmRecords == {R_FULL, R_FUZZY, R_PARTIAL, JsKeyless}

LlmTexts ==
    {<<>>, <<Prose>>, <<Seg("null", JsNull)>>, <<Seg("string", JsKeyless)>>,
     <<Seg("array", JsKeyless)>>}
    \cup { <<Seg("obj", rec)>> : rec \in LlmRecords }
    \cup { <<Prose, Seg("obj", R_FULL), Prose>>,
           <<Seg("obj", R_PARTIAL), Prose, Seg("obj", R_FULL)>> }

\* The awaited call's outcome: the call rejects, or resolves with a text
LlmThrow == [threw |-> TRUE, text |-> <<>>]

LlmOutcomes == {LlmThrow} \cup { [threw |-> FALSE, text |-> t] : t \in LlmTexts }

ObjIdx(txt) == { i \in 1..Len(txt) : txt[i].k = "obj" }

Min(S) == CHOOSE x \in S : \A y \in S : x <= y

Max(S) == CHOOSE x \in S : \A y \in S : x >= y

\* The first well-formed object of a response text if it carries a record,
\* JsNull otherwise; kept with the handler run as firstObj
FirstObject(txt) ==
    IF ObjIdx(txt) = {} THEN JsNull
    ELSE IF txt[Min(ObjIdx(txt))].v.t # "obj" THEN JsNull
    ELSE txt[Min(ObjIdx(txt))].v

\* txt.match(/\{[\s\S]*\}/): from the first opening brace to the last closing
\* brace; the whole text when there is no brace
RegexMatch(txt) ==
    IF ObjIdx(txt) = {} THEN txt
    ELSE SubSeq(txt, Min(ObjIdx(txt)), Max(ObjIdx(txt)))

\* JSON.parse: a value for exactly one JSON value, a SyntaxError otherwise
JsonParse(txt) ==
    IF Len(txt) = 1 /\ txt[1].k # "prose"
    THEN [ok |-> TRUE, value |-> txt[1].v]
    ELSE [ok |-> FALSE, value |-> JsNull]

\* The try block around the extraction of the gathering revisions: the
\* record is replaced only if the call and the parse both succeed
ExtractGather(r, out) ==
    LET q == [r EXCEPT !.firstObj = FirstObject(out.text)]
    IN  IF out.threw THEN Failed(r, "llm")
        ELSE IF ~JsonParse(RegexMatch(out.text)).ok THEN Failed(q, "llmParse")
        ELSE [q EXCEPT !.extracted = JsonParse(RegexMatch(out.text)).value]

\* x || ""
OrEmpty(x) == IF x = Undef THEN "" ELSE x

-----------------------------------------------------------------------------
(* Suburb correction *)

\* Three entries of the list, in the list's order: one with a space, and one
\* that is the beginning of the next
sydneySuburbs == <<"Canley Vale", "Bondi", "Bondi Junction">>

Gazetteer == { sydneySuburbs[k] : k \in DOMAIN sydneySuburbs }

ACCEPT_SCORE == 30            \* best.score <= 0.30, in hundredths

\* A normalisation that would drop the spaces as well
cleanLocationTextNoSpaces(s) ==
    CASE s = "Canley Vale" -> "canleyvale"
      [] s = "Bondi" -> "bondi"
      [] s = "Bondi Junction" -> "bondijunction"
      [] s = "Candyville" -> "candyville"
      [] OTHER -> ""

\* Lower case, every character but letters, spaces, ' and - to a space, runs
\* of spaces to one, trimmed: "12 !!" and "" come out empty
cleanLocationText(s) ==
    CASE s = "Canley Vale" -> "canley vale"
      [] s = "Bondi" -> "bondi"
      [] s = "Bondi Junction" -> "bondi junction"
      [] s = "Candyville" -> "candyville"
      [] OTHER -> ""

\* The library compares without regard to case
Lower(g) ==
    CASE g = "Canley Vale" -> "canley vale"
      [] g = "Bondi" -> "bondi"
      [] g = "Bondi Junction" -> "bondi junction"

\* The text t begins with the pattern q
BeginsWith(t, q) == t = q \/ (t = "bondi junction" /\ q = "bondi")

\* What suburbFuse.search(q)[0] can be.  The entries that begin with the
\* pattern match it without error at the expected position and score best,
\* the earlier in the list first; for any other pattern the library may
\* return no result or any entry, scored within or beyond the acceptance
\* score.
FuseBest(q) ==
    LET perfect == { k \in DOMAIN sydneySuburbs : BeginsWith(Lower(sydneySuburbs[k]), q) }
    IN  IF q = "" THEN {NoMatch}
        ELSE IF perfect # {}
        THEN { [item |-> sydneySuburbs[Min(perfect)], score |-> 0] }
        ELSE {NoMatch} \cup { [item |-> g, score |-> sc] :
                                g \in Gazetteer, sc \in {ACCEPT_SCORE, ACCEPT_SCORE + 1} }

\* A matcher that would take the first result whatever its score
bestSydneySuburbAnyScore(raw, best) ==
    IF cleanLocationText(raw) = "" THEN "" ELSE best.item

bestSydneySuburb(raw, best) ==
    IF cleanLocationText(raw) = "" THEN ""
    ELSE IF best.item = "" THEN ""
    ELSE IF best.score <= ACCEPT_SCORE THEN best.item
    ELSE ""

-----------------------------------------------------------------------------
(* Urgency *)

\* String(e).toLowerCase().includes(w)
Includes(e, w) ==
    CASE w = "yes" -> e \in {"yes"}
      [] w = "urgent" -> e \in {"urgent", "not urgent"}
      [] w = "emergency" -> e \in {"emergency", "no emergency"}
      [] OTHER -> FALSE

Urgent(e) ==
    CASE variant = V_MAIN ->
            Includes(e, "yes") \/ Includes(e, "urgent") \/ Includes(e, "emergency")
      [] variant = V_FUSE -> Includes(e, "yes") \/ Includes(e, "urgent")
      [] OTHER -> FALSE

-----------------------------------------------------------------------------
(* POST /afterhours *)

Speeches == {"", "blocked drain in Candyville", "the kitchen is flooding"}

\* The lead as the owner's text message and email spell it out
LeadOf(r) ==
    [ sent |-> TRUE,
      name |-> OrEmpty(r.extracted.name),
      location |-> OrEmpty(r.extracted.location),
      issue |-> OrEmpty(r.extracted.issue),
      urgent |-> IF variant = V_MAIN /\ r.urgent THEN "YES"
                 ELSE OrEmpty(r.extracted.emergency) ]

\* The spoken closing message and the hangup
AfterHoursClosing(r, cached) ==
    CASE variant = V_PRESYNTH ->
            IF ~elevenEnabled
            THEN Respond(r, TwiML(<<Verb("say", "closing"), Hangup>>))
            ELSE IF cached
            THEN Respond(r, TwiML(<<Verb("play", "closing"), Hangup>>))
            ELSE Await(r, "tts")
      [] OTHER ->
            Respond(r, TwiML(<<sayOrPlay(IF r.urgent THEN "closing_urgent"
                                         ELSE "closing"), Hangup>>))

\* From the email step on
AfterHoursEmail(r, cached) ==
    IF ~emailConfigured THEN AfterHoursClosing(r, cached)
    ELSE IF r.extracted.t = "null"
    \* reading a key of null throws inside this try block, before the send
    THEN AfterHoursClosing(Failed(r, "emailBody"), cached)
    ELSE Await(r, "email")

\* A correction that would assign the matcher's result even when it is empty
AfterHoursNotifyAssignAlways(r, best, cached) ==
    IF r.extracted.t = "null"
    THEN Crash(Failed(r, "handler"))
    ELSE LET fixed == bestSydneySuburb(OrEmpty(r.extracted.location), best)
             q == [r EXCEPT !.extracted = [r.extracted EXCEPT !.location = fixed],
                            !.heard = OrEmpty(r.extracted.location),
                            !.best = best, !.fixed = fixed]
         IN  Await([q EXCEPT !.lead = LeadOf(q)], "ownerSms")

\* From the suburb correction on: best is what the fuzzy search returns for
\* the extracted location.  heard, best and fixed keep the location as it was
\* extracted, the search's first result and the matcher's result.
AfterHoursNotify(r, best, cached) ==
    IF r.extracted.t = "null"
    THEN CASE variant = V_MAIN ->
                Respond(Failed(r, "handler"), TwiML(<<sayOrPlay("error"), Hangup>>))
           [] variant = V_FUSE -> Crash(Failed(r, "handler"))
           [] OTHER -> AfterHoursEmail(Failed(r, "smsBody"), cached)
    ELSE LET matched == variant # V_PRESYNTH
             fixed == IF matched
                      THEN bestSydneySuburb(OrEmpty(r.extracted.location), best)
                      ELSE ""
             ex == IF fixed # "" THEN [r.extracted EXCEPT !.location = fixed]
                   ELSE r.extracted
             q == [r EXCEPT !.extracted = ex,
                            !.heard = OrEmpty(r.extracted.location),
                            !.best = IF matched THEN best ELSE NoMatch,
                            !.fixed = fixed,
                            !.urgent = Urgent(OrEmpty(ex.emergency))]
         IN  Await([q EXCEPT !.lead = LeadOf(q)], "ownerSms")

\* A handler that would prompt the caller again when nothing was captured,
\* which none of the revisions does
AfterHoursStartRegather(r, cached) ==
    IF r.speech = ""
    THEN Respond(r, GatherDoc(sayOrPlay("nospeech_again"), sayOrPlay("prompt"),
                              sayOrPlay("nospeech")))
    ELSE AfterHoursNotify([r EXCEPT !.extracted = Rec("", "", r.speech, "")],
                          NoMatch, cached)

\* The handler up to its first await
AfterHoursStart(r, cached) ==
    LET q == [r EXCEPT !.extracted = Rec("", "", r.speech, "")]
    IN  IF variant = V_MAIN /\ r.speech = ""
        THEN Respond(r, TwiML(<<sayOrPlay("nospeech_again"), Hangup>>))
        ELSE IF env.openai /\ r.speech # "" THEN Await(q, "llm")
        ELSE AfterHoursNotify(q, NoMatch, cached)

AfterHoursAfterLlm(r, out, best, cached) ==
    AfterHoursNotify(ExtractGather(r, out), best, cached)

AfterHoursAfterOwnerSms(r, ok, cached) ==
    AfterHoursEmail(IF ok THEN r ELSE Failed(r, "ownerSms"), cached)

AfterHoursAfterEmail(r, ok, cached) ==
    AfterHoursClosing(IF ok THEN r ELSE Failed(r, "email"), cached)

AfterHoursAfterTts(r, ok) ==
    Respond(IF ok THEN r ELSE Failed(r, "tts"),
            TwiML(<<sayOrPlayCached("closing", ok), Hangup>>))

-----------------------------------------------------------------------------
(* The realtime after-hours bot: one final transcript of the media stream *)

Transcripts == {"", "burst pipe at Canley Vale", "it is Ann"}

NoConn == [started |-> FALSE, lastFinal |-> "", conversation |-> <<>>,
           closing |-> FALSE]

Turn(role, content) == [role |-> role, content |-> content]

\* The end of a handler run: it returned, or its catch block logged the error
Return(r) == [r EXCEPT !.pc = "done"]

\* A handler without the repeated-final check
TranscriptIgnoredNoRepeat(r) == r.speech = "" \/ ~r.final

\* The three early returns of the transcript handler
TranscriptIgnored(r) ==
    r.speech = "" \/ ~r.final \/ r.speech = conn.lastFinal

\* llmRespond's second call and its JSON.parse(content || "{}"): the default
\* record stands when the parse throws
ExtractRealtime(out) ==
    IF out.text = <<>> THEN JsKeyless
    ELSE IF JsonParse(out.text).ok THEN JsonParse(out.text).value
    ELSE Rec("", "", "", "unsure")

\* (x || "").trim().length > 0
NonEmpty(x) == OrEmpty(x) # ""

SummaryOf(r) ==
    [ sent |-> TRUE,
      name |-> OrEmpty(r.extracted.name),
      location |-> OrEmpty(r.extracted.location),
      issue |-> IF NonEmpty(r.extracted.issue) THEN r.extracted.issue ELSE r.speech,
      urgent |-> IF NonEmpty(r.extracted.emergency) THEN r.extracted.emergency
                 ELSE "unsure" ]

\* From the enough-information check on
TranscriptComplete(r) ==
    IF NonEmpty(r.extracted.name) /\ NonEmpty(r.extracted.location)
    THEN Await(r, "tts")
    ELSE Return(r)

TranscriptAfterLlmChat(r, ok) ==
    IF ok THEN Await(r, "llm") ELSE Return(Failed(r, "llmChat"))

TranscriptAfterLlm(r, out) ==
    IF out.threw THEN Return(Failed(r, "llm"))
    ELSE LET q == IF out.text # <<>> /\ ~JsonParse(out.text).ok
                  THEN Failed(r, "llmParse") ELSE r
         IN  Await([q EXCEPT !.extracted = ExtractRealtime(out),
                             !.firstObj = FirstObject(out.text)], "ttsReply")

TranscriptAfterTtsReply(r, ok) ==
    IF ~ok THEN Return(Failed(r, "ttsReply"))
    ELSE LET q == [r EXCEPT !.said = @ \cup {"reply"}]
         IN  IF q.extracted.t = "null" THEN Return(Failed(q, "handler"))
             ELSE IF OrEmpty(q.extracted.emergency) = "yes"
             THEN Await([q EXCEPT !.urgent = TRUE], "alertSms")
             ELSE TranscriptComplete(q)

TranscriptAfterAlertSms(r, ok) ==
    IF ~ok THEN Return(Failed(r, "alertSms"))
    ELSE IF emailConfigured THEN Await(r, "alertEmail")
    ELSE TranscriptComplete(r)

TranscriptAfterAlertEmail(r, ok) ==
    IF ok THEN TranscriptComplete(r) ELSE Return(Failed(r, "alertEmail"))

TranscriptAfterTts(r, ok) ==
    IF ~ok THEN Return(Failed(r, "tts"))
    ELSE LET q == [r EXCEPT !.said = @ \cup {"closing"}]
         IN  Await([q EXCEPT !.lead = SummaryOf(q)], "ownerSms")

\* sendMark and ws.close()
TranscriptFinish(r) == Return([r EXCEPT !.said = @ \cup {"end_call"}])

TranscriptAfterOwnerSms(r, ok) ==
    IF ~ok THEN Return(Failed(r, "ownerSms"))
    ELSE IF emailConfigured THEN Await(r, "email")
    ELSE TranscriptFinish(r)

TranscriptAfterEmail(r, ok) ==
    IF ok THEN TranscriptFinish(r) ELSE Return(Failed(r, "email"))

-----------------------------------------------------------------------------
(* What a finished handler run leaves behind *)

HasVerb(doc, v) == \E k \in 1..Len(doc.verbs) : doc.verbs[k].verb = v

EndsWithHangup(doc) ==
    Len(doc.verbs) > 0 /\ doc.verbs[Len(doc.verbs)].verb = "hangup"

\* The prompts whose audio address a call-control document plays
PlayedTexts(doc) ==
    { doc.verbs[k].arg : k \in { j \in 1..Len(doc.verbs) :
                                   doc.verbs[j].verb = "play" } }

\* The callback routes a call-control document hands to the provider
DocCallbacks(doc) ==
    { doc.verbs[k].arg : k \in { j \in 1..Len(doc.verbs) :
                                   doc.verbs[j].verb \in {"dial", "gather", "stream"} } }

\* The dialogue stage after a handler run: a document that gathers speech (or
\* opens the stream) awaits the caller; a closing document, or the closing of
\* the stream, completes the dialogue
StageAfter(st, r) ==
    IF r.pc # "done" THEN st
    ELSE IF HasVerb(r.resp, "gather") \/ HasVerb(r.resp, "stream")
    THEN "AWAITING_LOCATION"
    ELSE IF r.route = "afterhours" /\ EndsWithHangup(r.resp) THEN "COMPLETE"
    ELSE IF r.route = "transcript" /\ "end_call" \in r.said THEN "COMPLETE"
    ELSE st

InFlight == Cardinality({ i \in DOMAIN reqs : reqs[i].pc # "done" })

CanDeliver == Len(reqs) < MaxDeliveries /\ InFlight < MaxInFlight

\* The prompt a pending synthesis of the pre-synthesizing revision is for
TtsText(r) ==
    CASE r.pc = "tts1" -> "intro"
      [] r.pc = "tts2" -> "prompt"
      [] OTHER -> "closing"

\* ensureAudioCached of the pre-synthesizing revision notes the prompt's text
\* under its id before it awaits the synthesis
TextsNoted(r) ==
    IF variant # V_PRESYNTH THEN audioTextMap
    ELSE IF r.pc \in {"tts1", "tts2", "tts"} THEN audioTextMap \cup {TtsText(r)}
    ELSE audioTextMap \cup PlayedTexts(r.resp)

\* Store handler run i (a new one when i = Len(reqs) + 1)
Put(i, r) ==
    /\ reqs' = IF i = Len(reqs) + 1 THEN Append(reqs, r)
               ELSE [reqs EXCEPT ![i] = r]
    /\ audioTextMap' = TextsNoted(r)
    /\ callbacks' = IF r.pc = "done" THEN callbacks \cup DocCallbacks(r.resp)
                    ELSE callbacks
    /\ stage' = StageAfter(stage, r)

-----------------------------------------------------------------------------
(* Continuations by awaited call *)

AfterOwnerSms(r, ok, cached) ==
    CASE r.route = "voice" -> VoiceAfterOwnerSms(r, ok)
      [] r.route = "post_dial" -> PostDialAfterOwnerSms(r, ok)
      [] r.route = "afterhours" -> AfterHoursAfterOwnerSms(r, ok, cached)
      [] OTHER -> TranscriptAfterOwnerSms(r, ok)

AfterEmail(r, ok, cached) ==
    CASE r.route = "post_dial" -> PostDialAfterEmail(r, ok)
      [] r.route = "afterhours" -> AfterHoursAfterEmail(r, ok, cached)
      [] OTHER -> TranscriptAfterEmail(r, ok)

AfterOwnerCall(r, ok) ==
    CASE r.route = "voice" -> VoiceAfterOwnerCall(r, ok)
      [] OTHER -> PostDialAfterOwnerCall(r, ok)

AfterTts(r, ok) ==
    CASE r.pc = "tts1" -> VoiceAfterTts1(r, ok)
      [] r.pc = "tts2" -> VoiceAfterTts2(r, ok)
      [] r.pc = "ttsReply" -> TranscriptAfterTtsReply(r, ok)
      [] r.route = "afterhours" -> AfterHoursAfterTts(r, ok)
      [] OTHER -> TranscriptAfterTts(r, ok)

-----------------------------------------------------------------------------
(* The main revision's audio cache: a Map of key -> { buf, ts } *)

AUDIO_TTL_MS == 2         \* 10 * 60 * 1000 ms, in units of five minutes
MaxNow == 4               \* the latest Date.now() considered, same units

TtlTexts == {"intro", "prompt"}
TtlBufs == {"b1", "b2"}   \* two different synthesis results

\* sha1 of the text, taken as injective
audioKey(text) == <<"sha1", text>>

TtlKeys == { audioKey(t) : t \in TtlTexts }

\* audioCache.get(key) is undefined
NoItem == [buf |-> "null", ts |-> 0]

NoRead == [key |-> audioKey(""), buf |-> "null", at |-> 0]

\* An empty cache at time 0; stored remembers the last setCachedAudio of every
\* key and got the result of the read the last step made, if it was a read
NoTtl == [now |-> 0,
          items |-> [k \in TtlKeys |-> NoItem],
          stored |-> [k \in TtlKeys |-> NoItem],
          got |-> NoRead]

\* A read that would never look at the entry's age
getCachedAudioNoExpiry(items, key, now) ==
    [buf |-> items[key].buf, items |-> items]

\* getCachedAudio: the buffer it returns, null for none, and the Map it leaves
getCachedAudio(items, key, now) ==
    LET item == items[key]
    IN  IF item = NoItem THEN [buf |-> "null", items |-> items]
        ELSE IF now - item.ts > AUDIO_TTL_MS
        THEN [buf |-> "null", items |-> [items EXCEPT ![key] = NoItem]]
        ELSE [buf |-> item.buf, items |-> items]

setCachedAudio(items, key, buf, now) ==
    [items EXCEPT ![key] = [buf |-> buf, ts |-> now]]

-----------------------------------------------------------------------------
(* The state machine *)

\* The revision evaluates the hours check, and the check returns
HoursChecked == variant = V_LUXON \/ (variant \in HoursVariants /\ env.tz)

\* The server has started and no call has come in; Clocks are the times and
\* windows considered
InitWith(Clocks) ==
    /\ variant \in Variants
    /\ env \in Envs(variant)
    /\ clock \in Clocks
    /\ (variant \notin HoursVariants \cup {V_LUXON})
          => clock = Clock(10, 2, <<7, 17>>)
    /\ reqs = <<>>
    /\ callbacks = {}
    /\ stage = "START"
    /\ conn = NoConn
    /\ audioCache = {}
    /\ audioTextMap = {}
    /\ ttl = NoTtl

Init == InitWith(CallClocks)

ClosingCached == "closing" \in audioCache

\* The provider announces the call
DeliverVoice ==
    /\ Listening(variant, env)
    /\ reqs = <<>>
    /\ LET inHours == IF variant = V_LUXON
                       THEN isBusinessHours(clock.day, clock.hour)
                       ELSE isWithinBusinessHours(clock.hour, clock.start, clock.end)
           r == [NewReq("voice") EXCEPT
                    !.inHours = IF ~HoursChecked THEN "na"
                                ELSE IF inHours THEN "yes" ELSE "no"]
       IN  Put(1, VoiceStart(r, inHours))
    /\ UNCHANGED <<variant, env, clock, ttl, conn, audioCache>>

\* The dial attempt ended; a redelivery repeats the same form fields
DeliverPostDial ==
    /\ DialAction \in callbacks
    /\ CanDeliver
    /\ \E c \in Callers, st \in DialStatuses, du \in Durations, ab \in AnsweredBys :
          /\ variant \notin {V_MAIN, V_FUSE, V_PRESYNTH, V_SELFTEST} => ab = ""
          /\ c = OWNER_NUMBER => variant = V_SELFTEST
          /\ \A j \in DOMAIN reqs :
                reqs[j].route = "post_dial" =>
                    /\ reqs[j].caller = c
                    /\ reqs[j].status = st
                    /\ reqs[j].dur = du
                    /\ reqs[j].ansBy = ab
          /\ Put(Len(reqs) + 1,
                 PostDialStart([NewReq("post_dial") EXCEPT
                                   !.caller = c, !.status = st, !.dur = du,
                                   !.ansBy = ab]))
    /\ UNCHANGED <<variant, env, clock, ttl, conn, audioCache>>

\* The speech gathering ended, with or without speech
DeliverAfterHours ==
    /\ "/afterhours" \in callbacks
    /\ CanDeliver
    /\ \E sp \in Speeches :
          Put(Len(reqs) + 1,
              AfterHoursStart([NewReq("afterhours") EXCEPT !.speech = sp],
                              ClosingCached))
    /\ UNCHANGED <<variant, env, clock, ttl, conn, audioCache>>

\* The media stream's start message and its greeting: the greeting joins the
\* conversation if its synthesis succeeds.  The greeting is placed before the
\* first transcript; the order of the conversation's entries only changes
\* the text the language model is sent.
StreamStart ==
    /\ "/twilio-stream" \in callbacks
    /\ ~conn.started
    /\ \E ok \in BOOLEAN :
          conn' = [conn EXCEPT
                      !.started = TRUE,
                      !.conversation = IF ok
                                       THEN Append(@, Turn("assistant", "greeting"))
                                       ELSE @]
    /\ UNCHANGED <<variant, env, clock, ttl, reqs, callbacks, stage, audioCache,
                   audioTextMap>>

\* The transcriber reports a transcript
DeliverTranscript ==
    /\ conn.started
    /\ CanDeliver
    /\ \E sp \in Transcripts, fin \in BOOLEAN :
          LET r == [NewReq("transcript") EXCEPT !.speech = sp, !.final = fin]
          IN  IF TranscriptIgnored(r)
              THEN /\ Put(Len(reqs) + 1, Return(r))
                   /\ conn' = conn
              ELSE /\ Put(Len(reqs) + 1, Await(r, "llmChat"))
                   /\ conn' = [conn EXCEPT
                                  !.lastFinal = sp,
                                  !.conversation = Append(@, Turn("user", sp))]
    /\ UNCHANGED <<variant, env, clock, ttl, audioCache>>

Waiting(i, pcs) == i \in DOMAIN reqs /\ reqs[i].pc \in pcs

LlmChatReturns(i) ==
    /\ Waiting(i, {"llmChat"})
    /\ \E ok \in BOOLEAN : Put(i, TranscriptAfterLlmChat(reqs[i], ok))
    /\ UNCHANGED <<variant, env, clock, ttl, conn, audioCache>>

LlmReturns(i) ==
    /\ Waiting(i, {"llm"})
    /\ \E out \in LlmOutcomes :
          IF reqs[i].route = "transcript"
          THEN /\ Put(i, TranscriptAfterLlm(reqs[i], out))
               /\ conn' = IF out.threw THEN conn
                          ELSE [conn EXCEPT !.conversation =
                                    Append(@, Turn("assistant", "reply"))]
          ELSE /\ \E best \in FuseBest(cleanLocationText(
                          OrEmpty(ExtractGather(reqs[i], out).extracted.location))) :
                     Put(i, AfterHoursAfterLlm(reqs[i], out, best, ClosingCached))
               /\ conn' = conn
    /\ UNCHANGED <<variant, env, clock, ttl, audioCache>>

TtsReturns(i) ==
    /\ Waiting(i, {"tts1", "tts2", "tts", "ttsReply"})
    /\ \E ok \in BOOLEAN :
          /\ Put(i, AfterTts(reqs[i], ok))
          /\ audioCache' = IF variant = V_PRESYNTH /\ ok
                           THEN audioCache \cup {TtsText(reqs[i])}
                           ELSE audioCache
    /\ UNCHANGED <<variant, env, clock, ttl, conn>>

OwnerSmsReturns(i) ==
    /\ Waiting(i, {"ownerSms"})
    /\ \E ok \in BOOLEAN :
          LET r == AfterOwnerSms(reqs[i], ok, ClosingCached)
          IN  /\ Put(i, r)
              /\ conn' = IF "end_call" \in r.said
                         THEN [conn EXCEPT !.closing = TRUE] ELSE conn
    /\ UNCHANGED <<variant, env, clock, ttl, audioCache>>

CallerSmsReturns(i) ==
    /\ Waiting(i, {"callerSms"})
    /\ \E ok \in BOOLEAN : Put(i, PostDialAfterCallerSms(reqs[i], ok))
    /\ UNCHANGED <<variant, env, clock, ttl, conn, audioCache>>

EmailReturns(i) ==
    /\ Waiting(i, {"email"})
    /\ \E ok \in BOOLEAN :
          LET r == AfterEmail(reqs[i], ok, ClosingCached)
          IN  /\ Put(i, r)
              /\ conn' = IF "end_call" \in r.said
                         THEN [conn EXCEPT !.closing = TRUE] ELSE conn
    /\ UNCHANGED <<variant, env, clock, ttl, audioCache>>

OwnerCallReturns(i) ==
    /\ Waiting(i, {"ownerCall"})
    /\ \E ok \in BOOLEAN : Put(i, AfterOwnerCall(reqs[i], ok))
    /\ UNCHANGED <<variant, env, clock, ttl, conn, audioCache>>

AlertSmsReturns(i) ==
    /\ Waiting(i, {"alertSms"})
    /\ \E ok \in BOOLEAN : Put(i, TranscriptAfterAlertSms(reqs[i], ok))
    /\ UNCHANGED <<variant, env, clock, ttl, conn, audioCache>>

AlertEmailReturns(i) ==
    /\ Waiting(i, {"alertEmail"})
    /\ \E ok \in BOOLEAN : Put(i, TranscriptAfterAlertEmail(reqs[i], ok))
    /\ UNCHANGED <<variant, env, clock, ttl, conn, audioCache>>

Slots == 1..(MaxDeliveries + 1)

Next ==
    \/ DeliverVoice
    \/ DeliverPostDial
    \/ DeliverAfterHours
    \/ StreamStart
    \/ DeliverTranscript
    \/ \E i \in Slots : LlmChatReturns(i)
    \/ \E i \in Slots : LlmReturns(i)
    \/ \E i \in Slots : TtsReturns(i)
    \/ \E i \in Slots : OwnerSmsReturns(i)
    \/ \E i \in Slots : CallerSmsReturns(i)
    \/ \E i \in Slots : EmailReturns(i)
    \/ \E i \in Slots : OwnerCallReturns(i)
    \/ \E i \in Slots : AlertSmsReturns(i)
    \/ \E i \in Slots : AlertEmailReturns(i)

Spec == Init /\ [][Next]_vars

\* The hours check alone: /voice at every time of the week, under every window
InitHours == InitWith(AllClocks) /\ HoursChecked

SpecHours == InitHours /\ [][DeliverVoice]_vars

-----------------------------------------------------------------------------
(* POST /sms: an inbound text message *)

\* The revisions with the /sms handler
SmsVariants == {V_REALTIME, V_MAIN, V_FUSE, V_PRESYNTH}

\* req.body.From of an inbound text
Senders == {"+61411111111", Undef}

\* The handler up to its first await: the forward to the owner
SmsStart(r) == Await(r, "smsForward")

\* Both the try's end and the catch answer res.status(200).send("OK")
SmsAck(r) == Respond(r, PlainText(200))

\* The auto-reply to the sender
SmsReply(r) == Await(r, "smsReply")

SmsAfterForward(r, ok) ==
    IF ~ok THEN SmsAck(Failed(r, "smsForward"))
    ELSE IF emailConfigured THEN Await(r, "smsEmail")
    ELSE SmsReply(r)

\* The realtime revision awaits the email without a try block of its own
SmsAfterEmail(r, ok) ==
    IF ok THEN SmsReply(r)
    ELSE IF variant = V_REALTIME THEN SmsAck(Failed(r, "smsEmail"))
    ELSE SmsReply(Failed(r, "smsEmail"))

SmsAfterReply(r, ok) == SmsAck(IF ok THEN r ELSE Failed(r, "smsReply"))

\* Somebody texts the provider number
DeliverSms ==
    /\ variant \in SmsVariants
    /\ Listening(variant, env)
    /\ CanDeliver
    /\ \E from \in Senders :
          Put(Len(reqs) + 1, SmsStart([NewReq("sms") EXCEPT !.caller = from]))
    /\ UNCHANGED <<variant, env, clock, ttl, conn, audioCache>>

SmsForwardReturns(i) ==
    /\ Waiting(i, {"smsForward"})
    /\ \E ok \in BOOLEAN : Put(i, SmsAfterForward(reqs[i], ok))
    /\ UNCHANGED <<variant, env, clock, ttl, conn, audioCache>>

SmsEmailReturns(i) ==
    /\ Waiting(i, {"smsEmail"})
    /\ \E ok \in BOOLEAN : Put(i, SmsAfterEmail(reqs[i], ok))
    /\ UNCHANGED <<variant, env, clock, ttl, conn, audioCache>>

SmsReplyReturns(i) ==
    /\ Waiting(i, {"smsReply"})
    /\ \E ok \in BOOLEAN : Put(i, SmsAfterReply(reqs[i], ok))
    /\ UNCHANGED <<variant, env, clock, ttl, conn, audioCache>>

NextSms ==
    \/ DeliverSms
    \/ \E i \in Slots : SmsForwardReturns(i)
    \/ \E i \in Slots : SmsEmailReturns(i)
    \/ \E i \in Slots : SmsReplyReturns(i)

InitSms ==
    /\ InitWith({Clock(10, 2, <<7, 17>>)})
    /\ variant \in SmsVariants
    /\ Listening(variant, env)

\* The inbound texts alone, several of them and concurrently
SpecSms == InitSms /\ [][NextSms]_vars

-----------------------------------------------------------------------------
(* GET /audio and GET /audio/:id: the synthesized speech a <Play> fetches *)

\* The revisions with an audio endpoint
AudioVariants == {V_MAIN, V_FUSE, V_PRESYNTH}

\* req.query.text, or the prompt req.params.id stands for
AudioTexts == {"", "intro", "prompt"}

AudioBytes == [type |-> "audio/mpeg", status |-> 200, verbs |-> <<>>]

\* How the request to the synthesis service ends: a 2xx response with a
\* body, a response that is not ok, or a rejected fetch or body read
FetchResults == {"ok", "notOk", "threw"}

\* audioTextMap.get(id) of the pre-synthesizing revision finds the prompt
TextKnown(text) == text \in audioTextMap

\* A pre-synthesizing handler that would regenerate whatever id it is asked
AudioStartNoLookup(r, hit) ==
    IF hit THEN Respond([r EXCEPT !.tried = {"cache"}], AudioBytes)
    ELSE IF ~elevenEnabled THEN Respond(r, PlainText(500))
    ELSE Await(r, "fetch")

\* The handler up to its first await; hit: the cache holds an unexpired buffer
AudioStart(r, hit) ==
    IF variant = V_PRESYNTH
    THEN IF hit THEN Respond([r EXCEPT !.tried = {"cache"}], AudioBytes)
         ELSE IF r.speech = "" \/ ~TextKnown(r.speech) THEN Respond(r, PlainText(404))
         ELSE IF ~elevenEnabled THEN Respond(r, PlainText(500))
         ELSE Await(r, "fetch")
    ELSE IF r.speech = "" THEN Respond(r, PlainText(400))
         ELSE IF ~elevenEnabled THEN Respond(r, PlainText(500))
         ELSE IF hit THEN Respond([r EXCEPT !.tried = {"cache"}], AudioBytes)
         ELSE Await(r, "fetch")

\* A handler that would send whatever the service returned
AudioAfterFetchSendAnyway(r, result) ==
    Respond(IF result = "ok" THEN r ELSE Failed(r, "fetch"), AudioBytes)

AudioAfterFetch(r, result) ==
    CASE result = "ok" -> Respond(r, AudioBytes)
      [] result = "notOk" ->
            Respond(Failed(r, "fetch"),
                    PlainText(IF variant = V_PRESYNTH THEN 500 ELSE 502))
      [] OTHER -> Respond(Failed(r, "fetch"), PlainText(500))

\* The revisions that keep synthesized buffers
CachingVariants == {V_MAIN, V_PRESYNTH}

\* The provider, or anybody, fetches a clip.  expired: the main revision's
\* cached buffer is older than AUDIO_TTL_MS and is dropped on this read.
DeliverAudio ==
    /\ variant \in AudioVariants
    /\ Listening(variant, env)
    /\ CanDeliver
    /\ \E text \in AudioTexts, expired \in BOOLEAN :
          LET read == IF variant = V_MAIN THEN text # "" /\ elevenEnabled
                      ELSE variant = V_PRESYNTH
              held == read /\ text \in audioCache
              hit == held /\ (variant = V_MAIN => ~expired)
          IN  /\ Put(Len(reqs) + 1,
                     AudioStart([NewReq("audio") EXCEPT !.speech = text], hit))
              /\ audioCache' = IF held /\ ~hit THEN audioCache \ {text}
                               ELSE audioCache
    /\ UNCHANGED <<variant, env, clock, ttl, conn>>

AudioFetchReturns(i) ==
    /\ Waiting(i, {"fetch"})
    /\ \E result \in FetchResults :
          /\ Put(i, AudioAfterFetch(reqs[i], result))
          /\ audioCache' = IF variant \in CachingVariants /\ result = "ok"
                           THEN audioCache \cup {reqs[i].speech}
                           ELSE audioCache
    /\ UNCHANGED <<variant, env, clock, ttl, conn>>

InitAudio ==
    /\ InitWith({Clock(21, 2, <<7, 17>>)})
    /\ variant \in AudioVariants
    /\ Listening(variant, env)
    /\ env.tz /\ ~env.email /\ ~env.openai

NextAudio ==
    \/ DeliverVoice
    \/ \E i \in Slots : TtsReturns(i)
    \/ DeliverAudio
    \/ \E i \in Slots : AudioFetchReturns(i)

\* An after-hours /voice, whose prompts the pre-synthesizing revision
\* synthesizes, and the fetches of the clips
SpecAudio == InitAudio /\ [][NextAudio]_vars

-----------------------------------------------------------------------------
(* The suburb matcher alone *)

\* Locations the extraction can name: nothing, text that normalises to
\* nothing, the entries of the list, and a misheard suburb
Locations == {"", "12 !!", "Candyville"} \cup Gazetteer

LocationOutcomes ==
    { [threw |-> FALSE, text |-> <<Seg("obj", Rec("", l, "leak", "no"))>>] :
        l \in Locations }

InitSuburb ==
    /\ InitWith({Clock(21, 2, <<7, 17>>)})
    /\ variant \in {V_MAIN, V_FUSE}
    /\ env.owner /\ env.openai /\ env.tz

\* The extraction of an after-hours turn settles, naming one of Locations
LocationExtracted(i) ==
    /\ Waiting(i, {"llm"})
    /\ reqs[i].route = "afterhours"
    /\ \E out \in LocationOutcomes :
          \E best \in FuseBest(cleanLocationText(
                      OrEmpty(ExtractGather(reqs[i], out).extracted.location))) :
              Put(i, AfterHoursAfterLlm(reqs[i], out, best, ClosingCached))
    /\ UNCHANGED <<variant, env, clock, ttl, conn, audioCache>>

NextSuburb ==
    \/ DeliverVoice
    \/ DeliverAfterHours
    \/ \E i \in Slots : LocationExtracted(i)

\* After-hours turns up to the suburb correction, for every such location
SpecSuburb == InitSuburb /\ [][NextSuburb]_vars

-----------------------------------------------------------------------------
(* The audio cache of the main revision under the passing of time *)

TimePasses ==
    /\ ttl.now < MaxNow
    /\ ttl' = [ttl EXCEPT !.now = @ + 1, !.got = NoRead]
    /\ UNCHANGED <<variant, env, clock, reqs, callbacks, stage, conn,
                   audioCache, audioTextMap>>

\* GET /audio with a text, synthesis configured, reads the cache first
AudioCacheRead ==
    /\ \E text \in TtlTexts :
          LET g == getCachedAudio(ttl.items, audioKey(text), ttl.now)
          IN  ttl' = [ttl EXCEPT !.items = g.items,
                                 !.got = [key |-> audioKey(text), buf |-> g.buf,
                                          at |-> ttl.now]]
    /\ UNCHANGED <<variant, env, clock, reqs, callbacks, stage, conn,
                   audioCache, audioTextMap>>

\* A fetch that GET /audio awaited returned a body, which the handler stores
AudioCacheStore ==
    /\ \E text \in TtlTexts, buf \in TtlBufs :
          ttl' = [ttl EXCEPT
                     !.items = setCachedAudio(@, audioKey(text), buf, ttl.now),
                     !.stored = setCachedAudio(@, audioKey(text), buf, ttl.now),
                     !.got = NoRead]
    /\ UNCHANGED <<variant, env, clock, reqs, callbacks, stage, conn,
                   audioCache, audioTextMap>>

InitTtl ==
    /\ InitWith({Clock(21, 2, <<7, 17>>)})
    /\ variant = V_MAIN
    /\ Listening(variant, env)
    /\ env.eleven /\ env.tz /\ ~env.email /\ ~env.openai

NextTtl == TimePasses \/ AudioCacheRead \/ AudioCacheStore

\* Reads and stores of the cache by concurrent /audio requests, in any order
\* and at any times
SpecTtl == InitTtl /\ [][NextTtl]_vars

-----------------------------------------------------------------------------
(* Properties *)

\* The handler runs of one route that have ended
Ended(routes) == { i \in DOMAIN reqs : reqs[i].route \in routes /\ reqs[i].pc = "done" }

\* An awaited send of run i returned successfully
Sent(i, ch) == ch \in reqs[i].tried /\ ch \notin reqs[i].failed /\ reqs[i].pc # ch

\* The /afterhours runs whose lead text reached the owner
LeadsDispatched == { i \in DOMAIN reqs : reqs[i].route = "afterhours" /\ Sent(i, "ownerSms") }

\* C1: however often the after-hours turn of one call is delivered, duplicates
\* and concurrent deliveries included, exactly one lead notification is
\* dispatched for the call, so never a second one.
C1_ExactlyOneLead ==
    variant \in {V_MAIN, V_FUSE} => Cardinality(LeadsDispatched) <= 1

\* The order the dialogue stages are compared under
Stages == <<"START", "AWAITING_LOCATION", "AWAITING_ISSUE", "AWAITING_URGENCY",
            "COMPLETE">>

Rank(st) == CHOOSE k \in 1..Len(Stages) : Stages[k] = st

\* C2: the after-hours dialogue stage never regresses, whatever turn
\* deliveries arrive, under START < AWAITING_LOCATION < AWAITING_ISSUE <
\* AWAITING_URGENCY < COMPLETE.
C2_StageNeverRegresses == [][Rank(stage') >= Rank(stage)]_vars

\* C2, its case: the dialogue completed and a further delivery of the turn was
\* served after that
C2_DuplicateAfterComplete ==
    /\ stage = "COMPLETE"
    /\ Cardinality(Ended({"afterhours"})) >= 2

\* C3: an answeredBy that is present and is not "human" classifies the call
\* as MISSED for every dial status and duration, and the missed-call
\* notification is sent.
C3_NonHumanIsMissed ==
    \A i \in Ended({"post_dial"}) :
        reqs[i].ansBy \in {"machine", "fax", "unknown"} =>
            /\ reqs[i].outcome = "MISSED"
            /\ isSelfTest(reqs[i]) \/ "ownerSms" \in reqs[i].tried

\* C4: without an answeredBy signal the call is ANSWERED exactly if the dial
\* status is "completed" and the dial lasted at least the threshold of 12 s.
C4_ThresholdWithoutSignal ==
    variant \in {V_MAIN, V_FUSE, V_PRESYNTH, V_SELFTEST, V_MISSED12} =>
        \A i \in DOMAIN reqs :
            (reqs[i].route = "post_dial" /\ reqs[i].ansBy = "" /\ reqs[i].outcome # "na") =>
                (reqs[i].outcome = "ANSWERED"
                    <=> (reqs[i].status = "completed"
                         /\ reqs[i].dur >= ANSWERED_THRESHOLD_SECONDS))

\* C5: answeredBy = "human" classifies the call as ANSWERED for every dial
\* status and duration, and no missed-call notification is sent.
C5_HumanIsAnswered ==
    \A i \in DOMAIN reqs :
        (reqs[i].route = "post_dial" /\ reqs[i].ansBy = "human") =>
            /\ reqs[i].outcome = "ANSWERED"
            /\ reqs[i].tried = {}

\* C6: on the missed path of /post_dial the owner text, the caller auto-reply
\* and the owner email are each attempted whatever the outcome of the others.
C6_MissedChannelsIndependent ==
    variant \in {V_REALTIME, V_MAIN, V_FUSE, V_PRESYNTH} =>
        \A i \in Ended({"post_dial"}) :
            reqs[i].outcome = "MISSED" =>
                /\ "ownerSms" \in reqs[i].tried
                /\ StartsWithPlus(reqs[i].caller) => "callerSms" \in reqs[i].tried
                /\ emailConfigured => "email" \in reqs[i].tried

\* C7: when a completed after-hours lead is notified, the owner text and the
\* owner email (when configured) are attempted independently of each other's
\* outcome, and the closing is still spoken to the caller.
C7_LeadChannelsIndependent ==
    \A i \in Ended({"afterhours", "transcript"}) :
        reqs[i].lead.sent =>
            /\ "ownerSms" \in reqs[i].tried
            /\ emailConfigured => "email" \in reqs[i].tried
            /\ \/ "closing" \in reqs[i].said
               \/ /\ Len(reqs[i].resp.verbs) = 2
                  /\ reqs[i].resp.verbs[1].arg \in {"closing", "closing_urgent"}
                  /\ EndsWithHangup(reqs[i].resp)

\* C8: every voice webhook is answered with a call-control document, whatever
\* fails inside: never an HTTP error status, a plain-text body or no response.
C8_AlwaysCallControl ==
    \A i \in Ended({"voice", "post_dial", "afterhours"}) :
        /\ ~reqs[i].crashed
        /\ reqs[i].resp.type = "text/xml"
        /\ reqs[i].resp.status = 200

\* C9: when the extraction fails (the call rejects or its answer does not
\* parse) on a turn with speech, the lead is still dispatched, with the raw
\* transcript as its issue and empty name, location and emergency.
C9_FallbackLead ==
    \A i \in Ended({"afterhours", "transcript"}) :
        (reqs[i].failed \cap {"llmChat", "llm", "llmParse"} # {} /\ reqs[i].speech # "") =>
            /\ "ownerSms" \in reqs[i].tried
            /\ reqs[i].lead = [sent |-> TRUE, name |-> "", location |-> "",
                               issue |-> reqs[i].speech, urgent |-> ""]

\* A record with the four fields, each a string
ValidRecord(x) ==
    /\ x.t = "obj"
    /\ Undef \notin {x.name, x.location, x.issue, x.emergency}

\* The handler run was ended by an exception of the extraction step, or by
\* one thrown on reading what the step left
ExtractionRaised(r) ==
    \/ r.failed \cap {"handler", "smsBody", "emailBody"} # {}
    \/ r.route = "transcript" /\ r.failed \cap {"llmChat", "llm"} # {}

\* C10: the extraction step never raises to the handler and always leaves a
\* record with name, location, issue and emergency; an answer that parses to
\* anything else becomes the fallback record.
C10_ExtractionTotal ==
    \A i \in DOMAIN reqs :
        reqs[i].route \in {"afterhours", "transcript"} =>
            /\ ValidRecord(reqs[i].extracted)
            /\ ~ExtractionRaised(reqs[i])

\* C11: an after-hours turn delivered with empty speech is a no-match event:
\* no extractor call, no owner text, no email, and the answer is a document
\* that ends the call, never a crash.
C11_EmptySpeechIsNoMatch ==
    \A i \in DOMAIN reqs :
        (reqs[i].route = "afterhours" /\ reqs[i].speech = "") =>
            /\ reqs[i].tried \cap {"llm", "ownerSms", "email"} = {}
            /\ ~reqs[i].lead.sent
            /\ reqs[i].pc = "done" => (~reqs[i].crashed /\ EndsWithHangup(reqs[i].resp))

\* The turns the dialogue has served to the end without any internal failure:
\* /afterhours runs and the final transcripts that were not ignored
TurnsServed ==
    { i \in Ended({"afterhours", "transcript"}) :
        /\ reqs[i].failed = {}
        /\ reqs[i].route = "transcript" => "llmChat" \in reqs[i].tried }

\* C12: the after-hours dialogue does not go on indefinitely: within a
\* bounded number of turns (here as many as one call is given) it has reached
\* its terminal response.
C12_TerminatesWithinTurnCap ==
    Cardinality(TurnsServed) >= MaxDeliveries - 1 => stage = "COMPLETE"

\* The raw transcript contains one of the emergency keywords (flooding,
\* bursting, cannot stop, urgent, emergency)
HasEmergencyKeyword(speech) == speech \in {"the kitchen is flooding"}

\* C13: a lead is urgent if the emergency field says yes or the raw transcript
\* contains an emergency keyword, also when the extractor is unavailable or
\* leaves the field empty.
C13_UrgentByFieldOrKeyword ==
    variant \in {V_MAIN, V_FUSE} =>
        \A i \in DOMAIN reqs :
            (reqs[i].route = "afterhours" /\ reqs[i].lead.sent) =>
                ((OrEmpty(reqs[i].extracted.emergency) = "yes"
                      \/ HasEmergencyKeyword(reqs[i].speech))
                    => reqs[i].urgent)

\* C14: an emergency field that is unsure, no, empty or missing, or that
\* denies urgency, does not make a lead urgent when the transcript has no
\* emergency keyword.
C14_OnlyAffirmativeIsUrgent ==
    \A i \in DOMAIN reqs :
        (/\ reqs[i].route \in {"afterhours", "transcript"}
         /\ OrEmpty(reqs[i].extracted.emergency)
                \in {"unsure", "no", "", "not urgent", "no emergency"}
         /\ ~HasEmergencyKeyword(reqs[i].speech))
            => ~reqs[i].urgent

\* C15: for every completed after-hours lead classified urgent, a voice call
\* to the owner is attempted after the text and email attempts, whether or
\* not those failed.
C15_UrgentLeadCallsOwner ==
    variant \in {V_MAIN, V_FUSE} =>
        \A i \in Ended({"afterhours"}) :
            (reqs[i].lead.sent /\ reqs[i].urgent) => "ownerCall" \in reqs[i].tried

\* The /voice runs in which the hours check returned a result
HoursEvaluated == { i \in DOMAIN reqs : reqs[i].route = "voice" /\ reqs[i].inHours # "na" }

\* C16: a window whose closing hour is before its opening hour is an
\* overnight window, hour >= open or hour < close: with 22 and 6, hours 23
\* and 3 are within hours and hours 10 and 21 are not.
C16_OvernightWindow ==
    \A i \in HoursEvaluated :
        (variant \in HoursVariants /\ clock.start > clock.end) =>
            (reqs[i].inHours = "yes"
                <=> (clock.hour >= clock.start \/ clock.hour < clock.end))

\* C17: the result depends on the weekday: under Mon-Fri 7 to 17, Sat 7 to
\* 12, Sun closed, all of Sunday and Saturday from 12 on are outside hours and
\* Monday to Friday 7 to 16 are inside.
C17_WeekdaySchedule ==
    \A i \in HoursEvaluated :
        (variant = V_LUXON \/ (clock.start = 7 /\ clock.end = 17)) =>
            /\ clock.day = 7 => reqs[i].inHours = "no"
            /\ (clock.day = 6 /\ clock.hour >= 12) => reqs[i].inHours = "no"
            /\ (clock.day \in 1..5 /\ clock.hour \in 7..16) => reqs[i].inHours = "yes"

\* C18: when the opening hour equals the closing hour the result is "not
\* within hours" at every hour of the day, and the check raises no error.
C18_EmptyWindowAlwaysClosed ==
    \A i \in DOMAIN reqs :
        (reqs[i].route = "voice" /\ variant \in HoursVariants
            /\ clock.start = clock.end) =>
                /\ reqs[i].inHours = "no"
                /\ ~reqs[i].crashed
                /\ HasVerb(reqs[i].resp, "dial") = FALSE

\* C18, its case: /voice answered at the very hour an empty window names
C18_AtTheEmptyWindowsHour ==
    \E i \in DOMAIN reqs :
        /\ reqs[i].route = "voice" /\ reqs[i].pc = "done"
        /\ variant \in HoursVariants
        /\ clock.start = clock.end /\ clock.hour = clock.start
        /\ reqs[i].inHours = "no"

\* C19: /voice returns one of two documents by the hours result: within
\* hours the live dial with the post-dial callback, no after-hours prompt and
\* no notification; outside hours the greeting and the speech-gathering
\* prompt, with no dial.
C19_VoiceDocumentByHours ==
    \A i \in HoursEvaluated :
        reqs[i].pc = "done" =>
            /\ reqs[i].inHours = "yes" =>
                  /\ reqs[i].resp = TwiML(<<Verb("dial", "/post_dial")>>)
                  /\ reqs[i].tried \cap {"ownerSms", "ownerCall", "email"} = {}
            /\ reqs[i].inHours = "no" =>
                  /\ HasVerb(reqs[i].resp, "gather") \/ HasVerb(reqs[i].resp, "stream")
                  /\ ~HasVerb(reqs[i].resp, "dial")

C21_NoAnswerTexts ==
    variant # V_CALLBACK =>
        \A i \in Ended({"post_dial"}) :
            (reqs[i].status = "no-answer" /\ env.owner) =>
                /\ "ownerSms" \in reqs[i].tried
                /\ "callerSms" \in reqs[i].tried
                      <=> StartsWithPlus(PostDialCaller(reqs[i]))

\* C22: with a required setting missing the process fails at startup and
\* never serves: no webhook request is handled while a required setting is
\* missing.
C22_NoServingWithoutRequired ==
    ~env.owner => reqs = <<>>

\* The email is attempted only with the email settings present, the
\* extraction only with the language-model key present
OptionalChannelsGated ==
    \A i \in DOMAIN reqs :
        /\ "email" \in reqs[i].tried => emailConfigured
        /\ "llm" \in reqs[i].tried => env.openai

\* Without the language-model key an after-hours turn with speech still
\* sends the lead, built from the raw transcript, and closes the call
RawTranscriptLead ==
    \A i \in Ended({"afterhours"}) :
        (~env.openai /\ reqs[i].speech # "") =>
            /\ reqs[i].lead.sent /\ reqs[i].lead.issue = reqs[i].speech
            /\ "ownerSms" \in reqs[i].tried
            /\ emailConfigured => "email" \in reqs[i].tried
            /\ ~reqs[i].crashed /\ EndsWithHangup(reqs[i].resp)

\* C23: missing optional settings degrade features without failing requests:
\* the email is attempted only when the email settings are all present, the
\* extraction only when the language-model key is present, otherwise the lead
\* is built from the raw transcript; the other channels and the response are
\* unaffected, and the server still serves.
C23_OptionalSettingsDegrade ==
    /\ OptionalChannelsGated
    /\ RawTranscriptLead
    /\ (env.owner /\ ~env.openai) => Listening(variant, env)

\* C24: /sms always answers a plain 200 acknowledgement and attempts both the
\* forward to the owner and the auto-reply to the sender (and the email when
\* configured): a failed forward or a failed email does not prevent the
\* auto-reply from being attempted.
C24_SmsAlwaysRepliesToSender ==
    \A i \in Ended({"sms"}) :
        /\ reqs[i].resp = PlainText(200)
        /\ ~reqs[i].crashed
        /\ "smsForward" \in reqs[i].tried
        /\ emailConfigured => "smsEmail" \in reqs[i].tried
        /\ "smsReply" \in reqs[i].tried

\* The after-hours runs that went through the suburb correction
Matched ==
    { i \in DOMAIN reqs : /\ reqs[i].route = "afterhours"
                          /\ reqs[i].lead.sent
                          /\ variant \in {V_MAIN, V_FUSE} }

\* C25: the lead's location is replaced by a gazetteer entry only when the
\* matcher returns a confident match; when the matcher returns empty the
\* location held before is kept, and a location that is a gazetteer entry is
\* never replaced by a value outside the gazetteer.
C25_LocationReplacedOnlyByMatch ==
    \A i \in Matched :
        /\ reqs[i].extracted.location # reqs[i].heard =>
              /\ reqs[i].fixed # ""
              /\ reqs[i].extracted.location = reqs[i].fixed
              /\ reqs[i].fixed \in Gazetteer
        /\ reqs[i].fixed = "" => OrEmpty(reqs[i].extracted.location) = reqs[i].heard
        /\ reqs[i].heard \in Gazetteer => reqs[i].extracted.location \in Gazetteer
        /\ reqs[i].lead.location = OrEmpty(reqs[i].extracted.location)

\* C25, its cases: a misheard suburb corrected in one run, and in another run
\* of the call a misheard suburb kept because the search's result was not
\* accepted
C25_CorrectedAndKept ==
    \E i, j \in Matched :
        /\ reqs[i].heard = "Candyville" /\ reqs[i].lead.location = "Canley Vale"
        /\ reqs[j].heard = "Candyville" /\ reqs[j].lead.location = "Candyville"
        /\ reqs[j].best.item # ""

\* C26: the matcher never guesses: its result is empty or an entry of the
\* gazetteer, and it is empty whenever the input normalises to the empty
\* string, the search returns nothing, or the first result's score does not
\* clear the acceptance score.
C26_MatcherNeverGuesses ==
    \A i \in Matched :
        /\ reqs[i].fixed \in Gazetteer \cup {""}
        /\ reqs[i].fixed # "" => reqs[i].fixed = reqs[i].best.item
        /\ (\/ cleanLocationText(reqs[i].heard) = ""
            \/ reqs[i].best = NoMatch
            \/ reqs[i].best.score > ACCEPT_SCORE) => reqs[i].fixed = ""

\* C26, its case: the search returned an entry scored just beyond the
\* acceptance score and the matcher answered empty
C26_NearMissRejected ==
    \E i \in Matched :
        /\ reqs[i].best.item \in Gazetteer
        /\ reqs[i].best.score = ACCEPT_SCORE + 1
        /\ reqs[i].fixed = ""

C28_FirstObjectExtracted ==
    \A i \in DOMAIN reqs :
        (reqs[i].route \in {"afterhours", "transcript"}
            /\ reqs[i].firstObj.t = "obj") =>
                /\ "llmParse" \notin reqs[i].failed
                /\ reqs[i].extracted.name = reqs[i].firstObj.name
                /\ reqs[i].extracted.issue = reqs[i].firstObj.issue
                /\ reqs[i].extracted.emergency = reqs[i].firstObj.emergency

\* A synthesis of the prompt returned successfully in some handler run
Synthesized(text) ==
    \E i \in DOMAIN reqs :
        \/ /\ reqs[i].route = "audio" /\ reqs[i].speech = text
           /\ Sent(i, "fetch")
        \/ /\ reqs[i].route = "voice"
           /\ \/ text = "intro" /\ Sent(i, "tts1")
              \/ text = "prompt" /\ Sent(i, "tts2")

\* C29: the audio endpoint answers with audio bytes only when synthesis
\* succeeded, freshly or from the cache, and with an error status otherwise
\* (missing text, synthesis not configured, backend failure); a failed
\* synthesis is never stored, so the cache only holds buffers a successful
\* synthesis returned.
C29_AudioOnlyFromSynthesis ==
    /\ \A i \in Ended({"audio"}) :
          /\ ~reqs[i].crashed
          /\ IF Sent(i, "fetch") \/ "cache" \in reqs[i].tried
             THEN reqs[i].resp = AudioBytes
             ELSE /\ reqs[i].resp.type = "text/plain"
                  /\ reqs[i].resp.status \in {400, 404, 500, 502}
          /\ (reqs[i].speech = "" \/ ~elevenEnabled \/ "fetch" \in reqs[i].failed)
                => reqs[i].resp.status >= 400
    /\ \A text \in audioCache : text # "" /\ Synthesized(text)

\* C29, its cases: one fetch failed at the service, a later one succeeded and
\* was stored, and a third was served from the cache
C29_FailedThenCachedThenServed ==
    \E i, j, k \in Ended({"audio"}) :
        /\ "fetch" \in reqs[i].failed /\ reqs[i].resp.status >= 500
        /\ Sent(j, "fetch") /\ reqs[j].speech \in audioCache
        /\ "cache" \in reqs[k].tried /\ reqs[k].resp = AudioBytes

\* The awaited synthesis a played prompt of the pre-synthesizing revision
\* depends on
SynthesisOf(text) ==
    CASE text = "intro" -> "tts1"
      [] text = "prompt" -> "tts2"
      [] OTHER -> "tts"

\* C30: prompts fall back to the built-in voice when synthesis is
\* unavailable: with the synthesis key, the voice or the public base address
\* absent, or, in the pre-synthesizing revision, when the prompt's synthesis
\* fails, the prompt is a <Say> and never a <Play>, and the call-control
\* response is still produced.
C30_SayWhenSynthesisUnavailable ==
    variant \in GatherVariants =>
        \A i \in Ended({"voice", "afterhours"}) :
            /\ ~elevenEnabled => ~HasVerb(reqs[i].resp, "play")
            /\ variant = V_PRESYNTH =>
                  \A k \in 1..Len(reqs[i].resp.verbs) :
                      reqs[i].resp.verbs[k].verb = "play" =>
                          SynthesisOf(reqs[i].resp.verbs[k].arg) \notin reqs[i].failed
            /\ (env.tz /\ reqs[i].failed \subseteq {"tts1", "tts2", "tts"}) =>
                  /\ ~reqs[i].crashed
                  /\ reqs[i].resp.type = "text/xml"
                  /\ HasVerb(reqs[i].resp, "say") \/ HasVerb(reqs[i].resp, "play")
                        \/ HasVerb(reqs[i].resp, "dial")

\* C30, its case: the greeting's synthesis failed and the prompt's succeeded;
\* the document says the greeting and plays the prompt
C30_GreetingSaidPromptPlayed ==
    \E i \in Ended({"voice"}) :
        /\ variant = V_PRESYNTH
        /\ "tts1" \in reqs[i].failed /\ "tts2" \notin reqs[i].failed
        /\ reqs[i].resp.verbs[1] = Verb("say", "intro")
        /\ \E k \in 1..Len(reqs[i].resp.verbs) :
              reqs[i].resp.verbs[k] = Verb("play", "prompt")

\* The transcript handler runs whose lead summary reached the owner
SummariesSent ==
    { i \in DOMAIN reqs : reqs[i].route = "transcript" /\ Sent(i, "ownerSms") }

\* C31: in the realtime bot at most one lead summary is sent to the owner per
\* stream connection, for every sequence and interleaving of final
\* transcripts, a handler still awaiting a call when the next final
\* transcript arrives included.
C31_AtMostOneSummary == Cardinality(SummariesSent) <= 1

\* The transcript handler runs whose emergency alert reached the owner
AlertsSent ==
    { i \in DOMAIN reqs : reqs[i].route = "transcript" /\ Sent(i, "alertSms") }

\* C32: in the realtime bot at most one emergency alert is sent to the owner
\* per stream connection, although the extraction is recomputed at every
\* final transcript and keeps reporting emergency=yes.
C32_AtMostOneAlert == Cardinality(AlertsSent) <= 1

\* C33: an empty transcript, an interim transcript, or a final transcript
\* equal to the last processed final one triggers no language-model call, no
\* spoken reply and no notification and leaves the conversation unchanged:
\* the handler run it starts has ended at once with nothing tried or said.
C33_IgnoredTranscriptInert ==
    [][ \A i \in DOMAIN reqs' :
           ( /\ i \notin DOMAIN reqs
             /\ reqs'[i].route = "transcript"
             /\ \/ reqs'[i].speech = ""
                \/ ~reqs'[i].final
                \/ reqs'[i].speech = conn.lastFinal )
           => /\ reqs'[i].pc = "done"
              /\ reqs'[i].tried = {} /\ reqs'[i].said = {}
              /\ reqs'[i].lead = NoLead
              /\ conn' = conn ]_vars

\* C33, its case: a final transcript was processed and a later final
\* transcript repeating it was dropped
C33_RepeatedFinalDropped ==
    \E i, j \in DOMAIN reqs :
        /\ i < j
        /\ reqs[i].route = "transcript" /\ reqs[i].tried # {}
        /\ reqs[j].route = "transcript" /\ reqs[j].tried = {}
        /\ reqs[j].final /\ reqs[j].speech = reqs[i].speech
        /\ reqs[j].pc = "done"

\* C34: the audio cache never serves a stale entry: a read returns a buffer
\* only if that buffer is the one most recently stored for the key and was
\* stored no more than AUDIO_TTL_MS earlier, and a read that returns nothing
\* leaves no entry for the key, so an expired entry is removed by the read
\* that finds it expired.
C34_NeverStale ==
    ttl.got # NoRead =>
        LET last == ttl.stored[ttl.got.key]
        IN  /\ ttl.got.buf # "null" =>
                  /\ last # NoItem
                  /\ ttl.got.buf = last.buf
                  /\ ttl.got.at - last.ts <= AUDIO_TTL_MS
            /\ ttl.got.buf = "null" => ttl.items[ttl.got.key] = NoItem

\* C34, its case: a buffer was stored for a key, and a read made later than
\* AUDIO_TTL_MS after the last store of the key found the entry expired
C34_ExpiredEntryRead ==
    /\ ttl.got # NoRead /\ ttl.got.buf = "null"
    /\ ttl.stored[ttl.got.key] # NoItem
    /\ ttl.got.at - ttl.stored[ttl.got.key].ts > AUDIO_TTL_MS

\* The handler runs that end in this step
EndingNow == { i \in DOMAIN reqs' :
                 reqs'[i].pc = "done" /\ (i \in DOMAIN reqs => reqs[i].pc # "done") }

\* C35: in the pre-synthesizing revision, after any sequence of prompt
\* generations and audio fetches, every id in the audio buffer cache is also
\* in the id-to-text map; a fetch answers not-found exactly for the ids in
\* neither map; and every audio address placed in a call-control document
\* refers to an id that is in the buffer cache at that moment.
C35_AudioMapsConsistent ==
    [][ variant = V_PRESYNTH =>
           /\ audioCache' \subseteq audioTextMap'
           /\ \A i \in EndingNow \cup (DOMAIN reqs' \ DOMAIN reqs) :
                 reqs'[i].route = "audio" =>
                    ( reqs'[i].resp = PlainText(404)
                         <=> reqs'[i].speech \notin audioCache \cup audioTextMap )
           /\ \A i \in EndingNow :
                 PlayedTexts(reqs'[i].resp) \subseteq audioCache' ]_vars

\* C35, its case: the after-hours document plays a synthesized prompt, one
\* fetch was answered not-found and another one was answered with audio
C35_PlayedFetchedAndNotFound ==
    /\ variant = V_PRESYNTH
    /\ \E i \in DOMAIN reqs :
          reqs[i].route = "voice" /\ PlayedTexts(reqs[i].resp) # {}
    /\ \E i \in DOMAIN reqs :
          reqs[i].route = "audio" /\ reqs[i].resp = PlainText(404)
    /\ \E i \in DOMAIN reqs :
          reqs[i].route = "audio" /\ reqs[i].resp = AudioBytes

\* C36: in the self-test-aware post-dial handler, a missed call whose caller
\* address equals the owner number sends neither the owner text nor the
\* caller auto-reply and is answered with the missed-call message followed
\* by hangup; for every other caller of a missed call the owner text is sent.
C36_SelfTestTextsNobody ==
    variant = V_SELFTEST =>
        \A i \in DOMAIN reqs :
            (reqs[i].route = "post_dial" /\ reqs[i].outcome = "MISSED") =>
                IF reqs[i].caller = OWNER_NUMBER
                THEN /\ reqs[i].tried = {}
                     /\ reqs[i].pc = "done"
                     /\ reqs[i].resp = TwiML(<<Verb("say", "missed"), Hangup>>)
                ELSE "ownerSms" \in reqs[i].tried

\* C36, its case: a missed call from the owner's own number was served
C36_OwnerCalledOwnNumber ==
    /\ variant = V_SELFTEST
    /\ \E i \in DOMAIN reqs :
          /\ reqs[i].route = "post_dial" /\ reqs[i].pc = "done"
          /\ reqs[i].outcome = "MISSED"
          /\ reqs[i].caller = OWNER_NUMBER

====
